---------------------------- MODULE Spec2Model ----------------------------
(***************************************************************************)
(* LibraryConfig's implementation of the Migrate trait                     *)
(* (core/src/library/config.rs): the per-version migration steps of a      *)
(* library configuration document and of the rows of the library database  *)
(* that go with it, run by the migrator's driver loop.                     *)
(***************************************************************************)
EXTENDS Integers, Sequences, FiniteSets, TLC

(***************************************************************************)
(* Bounds of the model.                                                    *)
(***************************************************************************)
\* Store calls that may fail over a behaviour.
MaxFailures == 1
\* Pages a file_path table of the model fills at most.
MaxPages == 2
\* The highest to_version migrate() is called with.
MaxVersion == 7

(***************************************************************************)
(* Program constants.                                                      *)
(***************************************************************************)
CURRENT_VERSION == 5
PageSize == 500

\* Option<T>: None is the empty sequence, Some(x) the sequence of x alone.
None == <<>>

Some(x) == <<x>>

(***************************************************************************)
(* u64 values and str::parse::<u64>.  A u64 is held as four 16-bit limbs,  *)
(* least significant first, so that no intermediate value leaves TLC's     *)
(* integers and the 64-bit overflow of the parse is the real one.          *)
(***************************************************************************)
LimbBase == 65536
NumLimbs == 4

DigitChars == <<"0", "1", "2", "3", "4", "5", "6", "7", "8", "9">>

IsDigit(c) == \E i \in 1..10 : DigitChars[i] = c

DigitVal(c) == (CHOOSE i \in 1..10 : DigitChars[i] = c) - 1

U64Zero == <<0, 0, 0, 0>>

\* acc * 10 + d on limbs; carry[i] is the carry into limb i.
RECURSIVE CarryInto(_, _, _)
CarryInto(acc, d, i) ==
    IF i = 1 THEN d
    ELSE (acc[i - 1] * 10 + CarryInto(acc, d, i - 1)) \div LimbBase

\* checked_mul(10) followed by checked_add(d): overflow when a carry leaves
\* the most significant limb.
CheckedMulAdd(acc, d) ==
    [ok  |-> CarryInto(acc, d, NumLimbs + 1) = 0,
     val |-> << (acc[1] * 10 + CarryInto(acc, d, 1)) % LimbBase,
                (acc[2] * 10 + CarryInto(acc, d, 2)) % LimbBase,
                (acc[3] * 10 + CarryInto(acc, d, 3)) % LimbBase,
                (acc[4] * 10 + CarryInto(acc, d, 4)) % LimbBase >>]

RECURSIVE ParseDigits(_, _)
ParseDigits(digits, acc) ==
    IF digits = <<>> THEN [ok |-> TRUE, val |-> acc]
    ELSE IF ~IsDigit(Head(digits)) THEN [ok |-> FALSE, val |-> U64Zero]
    ELSE LET r == CheckedMulAdd(acc, DigitVal(Head(digits)))
         IN  IF r.ok THEN ParseDigits(Tail(digits), r.val)
             ELSE [ok |-> FALSE, val |-> U64Zero]

\* <u64 as FromStr>::from_str: an empty string and a lone sign are errors, a
\* leading "+" is accepted, a leading "-" is an invalid digit for an
\* unsigned type.
ParseU64(s) ==
    IF s = <<>> THEN [ok |-> FALSE, val |-> U64Zero]
    ELSE IF Len(s) = 1 /\ Head(s) \in {"+", "-"}
         THEN [ok |-> FALSE, val |-> U64Zero]
    ELSE IF Head(s) = "+" THEN ParseDigits(Tail(s), U64Zero)
    ELSE ParseDigits(s, U64Zero)

\* u64::to_le_bytes: eight bytes, least significant first.
ToLeBytes(n) ==
    << n[1] % 256, n[1] \div 256, n[2] % 256, n[2] \div 256,
       n[3] % 256, n[3] \div 256, n[4] % 256, n[4] \div 256 >>

\* u64::to_be_bytes: eight bytes, most significant first.
ToBeBytes(n) ==
    << n[4] \div 256, n[4] % 256, n[3] \div 256, n[3] % 256,
       n[2] \div 256, n[2] % 256, n[1] \div 256, n[1] % 256 >>


\* The legacy string a stored size converts to: size_in_bytes.parse::<u64>()
\* mapped to Some(size.to_be_bytes().to_vec()), None when the parse fails.
ConvertSize(size_in_bytes) ==
    LET r == ParseU64(size_in_bytes)
    IN  IF r.ok THEN Some(ToBeBytes(r.val)) ELSE None

(***************************************************************************)
(* Uuids.  A Uuid is its sixteen bytes.                                    *)
(***************************************************************************)
\* Uuid::from_u128(i as u128) for an enumerate() index i: the big-endian
\* bytes of i, of which only the last four can be non-zero.
UuidFromU128(i) ==
    [k \in 1..16 |->
        IF k <= 12 THEN 0
        ELSE IF k = 13 THEN (i \div 16777216) % 256
        ELSE IF k = 14 THEN (i \div 65536) % 256
        ELSE IF k = 15 THEN (i \div 256) % 256
        ELSE i % 256]

HexChars == <<"0", "1", "2", "3", "4", "5", "6", "7", "8", "9",
              "a", "b", "c", "d", "e", "f">>

\* Uuid's Display: lower-case hex, hyphenated 8-4-4-4-12.
UuidToString(u) ==
    [p \in 1..36 |->
        IF p \in {9, 14, 19, 24} THEN "-"
        ELSE LET h    == p - Cardinality({q \in {9, 14, 19, 24} : q < p})
                 byte == u[(h + 1) \div 2]
             IN  HexChars[(IF h % 2 = 1 THEN byte \div 16 ELSE byte % 16) + 1]]


(***************************************************************************)
(* The state: the library database's tables, the configuration document,   *)
(* the migration context, and where the driver and migrate() stand.        *)
(***************************************************************************)
VARIABLES
    indexer_rule,   \* id -> [name, pub_id]
    node,           \* id -> [pub_id, node_peer_id]
    file_path,      \* id -> [size_in_bytes, size_in_bytes_bytes]
    config,         \* the document's fields other than its version
    version,        \* the document's recorded version
    ctx,            \* Ctx: [node_id, peer_id] (the database handle is the tables)
    pc,             \* "idle", an await point of migrate(), "done", "failed"
                    \* or "panicked"
    cur,            \* the last version whose step has returned Ok
    to_version,     \* the argument of the migrate() call in progress or last made
    paths,          \* the page migrate(5) fetched last: id -> size_in_bytes
    batch,          \* the updates of the batch in flight: id -> fields set
    inflight,       \* the store calls issued and not yet returned
    failures,       \* store calls that have failed so far
    err,            \* the error the last failed migrate() returned
    loaded,         \* the version the document was loaded with
    started,        \* versions whose step began in this run, in order
    returned,       \* [v, res] of the migrate() calls that returned in this run
    entry,          \* tables and document when the current migrate() was entered
    fetches,        \* find_many calls issued by the current migrate(5)
    updated,        \* file_path ids rewritten by committed batches
    origin,         \* the initial state: what a clean run would start from
    fault           \* the store call that failed in this run, if one did

store == <<indexer_rule, node, file_path>>
hist == <<loaded, started, returned, entry, fetches, updated, origin, fault>>
vars == <<indexer_rule, node, file_path, config, version, ctx, pc, cur,
          to_version, paths, batch, inflight, failures, err, loaded, started,
          returned, entry, fetches, updated, origin, fault>>

(***************************************************************************)
(* Inputs.                                                                 *)
(***************************************************************************)
\* Legacy size_in_bytes strings a file_path row may hold.
LegacySamples ==
    << <<"1", "0", "2", "4">>,
       <<"a", "b", "c">>,
       <<>>,
       <<"-", "1">>,
       <<"1", "8", "4", "4", "6", "7", "4", "4", "0", "7",
         "3", "7", "0", "9", "5", "5", "1", "6", "1", "5">>,
       <<"1", "8", "4", "4", "6", "7", "4", "4", "0", "7",
         "3", "7", "0", "9", "5", "5", "1", "6", "1", "6">>,
       <<"+", "5">> >>

NumSamples == Len(LegacySamples)

\* Numbers of rows with a legacy size in the file_path tables of the model:
\* none and a pair, and the numbers around the page boundaries.
SmallRowCounts == {0, 2}

PageRowCounts ==
    {k * PageSize : k \in 1..(MaxPages - 1)} \cup {(MaxPages - 1) * PageSize + 1}

Offsets(n) == IF n = 2 THEN 0..(NumSamples - 1) ELSE {0}

\* The table of n rows whose legacy sizes run through the samples from o,
\* followed by two rows without a legacy size, one of them converted.
FilePathTable(n, o) ==
    [i \in 1..(n + 2) |->
        IF i <= n
        THEN [size_in_bytes |-> Some(LegacySamples[((i - 1 + o) % NumSamples) + 1]),
              size_in_bytes_bytes |-> None]
        ELSE [size_in_bytes |-> None,
              size_in_bytes_bytes |->
                  IF i = n + 1 THEN Some(<<0, 0, 0, 0, 0, 0, 0, 7>>) ELSE None]]

OldPubId(i) == [k \in 1..16 |-> 200 + i]

RuleNames == <<"No OS protected", "No Hidden", "No Git", "Only Images">>

\* Rule tables: the four built-in rules (out of order) with a custom and a
\* nameless rule, or the custom and the nameless rule alone.
RuleTable(withBuiltins) ==
    LET names == IF withBuiltins
                 THEN <<Some("No Git"), Some("No OS protected"),
                        Some("Custom"), None, Some("Only Images"),
                        Some("No Hidden")>>
                 ELSE <<Some("Custom"), None>>
    IN  [i \in 1..Len(names) |-> [name |-> names[i], pub_id |-> OldPubId(i)]]

NodeTable(n) ==
    [i \in 1..n |-> [pub_id |-> OldPubId(10 + i), node_peer_id |-> None]]

NodeCounts == 0..2

NodeIds ==
    { <<18, 52, 86, 120, 154, 188, 222, 240, 1, 35, 69, 103, 137, 171, 205, 239>>,
      [k \in 1..16 |-> 0] }

PeerIds == { [str |-> "12D3KooWpeer"] }

Identities == { <<1, 2, 3>>, <<4, 5, 6>> }

\* The fields a document written at version v holds.
DocumentAt(v) ==
    LET fields == {"name"} \cup (IF v >= 2 THEN {"identity"} ELSE {})
                           \cup (IF v >= 3 THEN {"node_id"} ELSE {})
    IN  [f \in fields |->
            CASE f = "name" -> "library"
              [] f = "identity" -> <<9, 9, 9>>
              [] f = "node_id" -> UuidToString(OldPubId(20))]

NoEntry == [config |-> <<>>, indexer_rule |-> <<>>, node |-> <<>>,
            file_path |-> <<>>]

\* The initial states: every stored version, rule table, node count and
\* context against the small file_path tables, and the page-boundary tables
\* with one node record, from the stored version just below the backfill.
Inputs ==
    [version : 0..CURRENT_VERSION, builtins : BOOLEAN, nodes : NodeCounts,
     rows : SmallRowCounts, offset : 0..(NumSamples - 1), node_id : NodeIds]
    \cup
    [version : {CURRENT_VERSION - 1}, builtins : {TRUE}, nodes : {1},
     rows : PageRowCounts, offset : {0}, node_id : NodeIds]

Init ==
    \E in \in Inputs, pid \in PeerIds :
        /\ in.offset \in Offsets(in.rows)
        /\ indexer_rule = RuleTable(in.builtins)
        /\ node = NodeTable(in.nodes)
        /\ file_path = FilePathTable(in.rows, in.offset)
        /\ config = DocumentAt(in.version)
        /\ version = in.version
        /\ ctx = [node_id |-> in.node_id, peer_id |-> pid]
        /\ pc = "idle"
        /\ cur = in.version
        /\ to_version = in.version
        /\ paths = <<>>
        /\ batch = <<>>
        /\ inflight = {}
        /\ failures = 0
        /\ err = None
        /\ loaded = in.version
        /\ started = <<>>
        /\ returned = <<>>
        /\ entry = NoEntry
        /\ fetches = 0
        /\ updated = {}
        /\ origin = [version |-> in.version, builtins |-> in.builtins,
                     nodes |-> in.nodes, rows |-> in.rows,
                     offset |-> in.offset]
        /\ fault = None

(***************************************************************************)
(* The driver loop of the migrator (util::migrator), which owns the        *)
(* iteration from the stored version to CURRENT_VERSION: it calls          *)
(* migrate(v) for v = stored + 1, ..., CURRENT_VERSION in order, stops at  *)
(* the first Err, and advances the document's version after the full run.  *)
(***************************************************************************)
\* The loop is about to call migrate(v).
DriverCalls(v) == pc = "idle" /\ cur < CURRENT_VERSION /\ v = cur + 1

\* migrate(v) is entered.
Enter(v) ==
    /\ to_version' = v
    /\ started' = Append(started, v)
    /\ entry' = [config |-> config, indexer_rule |-> indexer_rule,
                 node |-> node, file_path |-> file_path]

\* migrate(v) returned Ok(()): the loop goes on to the next version.
DriverOk(v) ==
    /\ pc' = "idle"
    /\ cur' = v
    /\ returned' = Append(returned, [v |-> v, res |-> "Ok"])
    /\ UNCHANGED <<version, err>>

\* migrate(v) returned Err(e): the loop ends, the version is not advanced.
DriverErr(v, e) ==
    /\ pc' = "failed"
    /\ err' = Some(e)
    /\ returned' = Append(returned, [v |-> v, res |-> "Err"])
    /\ UNCHANGED <<version, cur>>

\* Every step has returned Ok: the document is recorded at CURRENT_VERSION.
DriverFinish ==
    /\ pc = "idle" /\ cur = CURRENT_VERSION
    /\ pc' = "done"
    /\ version' = CURRENT_VERSION
    /\ UNCHANGED <<store, config, ctx, cur, to_version, paths, batch, inflight,
                   failures, err, hist>>

\* The run is made again from the version that failed.
DriverRetry ==
    /\ pc = "failed"
    /\ pc' = "idle"
    /\ err' = None
    /\ fault' = None
    /\ started' = <<>>
    /\ returned' = <<>>
    /\ UNCHANGED <<store, config, version, ctx, cur, to_version, paths, batch,
                   inflight, failures, loaded, entry, fetches, updated,
                   origin>>

\* A store call may fail while the budget of failures lasts.
StoreFails(call) ==
    /\ failures < MaxFailures
    /\ failures' = failures + 1
    /\ fault' = Some([v |-> to_version, call |-> call])

(***************************************************************************)
(* migrate(): match to_version.  The arm a version is matched by; the last *)
(* arm, v => unreachable!(..), takes every version without one of its own. *)
(***************************************************************************)
StepArm(v) ==
    CASE v = 0 -> "noop"
      [] v = 1 -> "rules"
      [] v = 2 -> "identity"
      [] v = 3 -> "node"
      [] v = 4 -> "noop"
      [] v = 5 -> "backfill"
      [] OTHER -> "unreachable"

\* to_version 0, which no run of the driver asks for: nothing to do, Ok(()).
\* The call is made on its own, before the driver's.
Migrate0 ==
    /\ pc = "idle" /\ started = <<>>
    /\ StepArm(0) = "noop"
    /\ Enter(0)
    /\ pc' = "idle"
    /\ returned' = Append(returned, [v |-> 0, res |-> "Ok"])
    /\ UNCHANGED <<store, config, version, ctx, cur, paths, batch, inflight,
                   failures, err, loaded, fetches, updated, origin, fault>>

\* The missing migration is reported as an error the caller gets back.
MigrateMissingErr ==
    /\ pc = "idle"
    /\ \E v \in (CURRENT_VERSION + 1)..MaxVersion :
          /\ StepArm(v) = "unreachable"
          /\ Enter(v)
          /\ pc' = "failed"
          /\ err' = Some("Custom")
          /\ returned' = Append(returned, [v |-> v, res |-> "Err"])
    /\ UNCHANGED <<store, config, version, ctx, cur, paths, batch, inflight,
                   failures, loaded, fetches, updated, origin, fault>>

\* A to_version without an arm of its own: unreachable!(..) panics, and the
\* call does not return.
MigrateMissing ==
    /\ pc = "idle"
    /\ \E v \in (CURRENT_VERSION + 1)..MaxVersion :
          /\ StepArm(v) = "unreachable"
          /\ Enter(v)
    /\ pc' = "panicked"
    /\ UNCHANGED <<store, config, version, ctx, cur, paths, batch, inflight,
                   failures, err, loaded, returned, fetches, updated, origin,
                   fault>>

(***************************************************************************)
(* migrate(): to_version 1, the built-in indexer rules are re-keyed.       *)
(***************************************************************************)
\* The map replaced by one holding the new entry alone.
InsertAlone(map, key, value) == [k \in {key} |-> value]

\* serde_json::Map::insert.
Insert(map, key, value) ==
    [k \in DOMAIN map \cup {key} |-> IF k = key THEN value ELSE map[k]]

\* The rule updates with the names counted from one.
RuleUpdatesFromOne ==
    [k \in 1..Len(RuleNames) |->
        [name |-> RuleNames[k], pub_id |-> UuidFromU128(k)]]

\* rules.into_iter().enumerate().map(...): one update_many per name, the
\* pub_id set to the Uuid of the name's index.
RuleUpdates ==
    [k \in 1..Len(RuleNames) |->
        [name |-> RuleNames[k], pub_id |-> UuidFromU128(k - 1)]]

\* The update without its filter on the name: every rule is re-keyed.
UpdateManyRulesAll(table, op) ==
    [r \in DOMAIN table |-> [table[r] EXCEPT !.pub_id = op.pub_id]]

\* indexer_rule().update_many(name = Some(name), pub_id := ...).
UpdateManyRules(table, op) ==
    [r \in DOMAIN table |->
        IF table[r].name = Some(op.name)
        THEN [table[r] EXCEPT !.pub_id = op.pub_id]
        ELSE table[r]]

\* db._batch(ops): the updates applied in order, together.
RECURSIVE BatchRules(_, _)
BatchRules(table, ops) ==
    IF ops = <<>> THEN table
    ELSE BatchRules(UpdateManyRules(table, Head(ops)), Tail(ops))

\* The batch is issued and awaited.
Migrate1Call ==
    /\ DriverCalls(1)
    /\ Enter(1)
    /\ pc' = "s1_batch"
    /\ inflight' = inflight \cup {"_batch"}
    /\ UNCHANGED <<store, config, version, ctx, cur, paths, batch, failures, err,
                   loaded, returned, fetches, updated, origin,
                   fault>>

Migrate1BatchOk ==
    /\ pc = "s1_batch"
    /\ indexer_rule' = BatchRules(indexer_rule, RuleUpdates)
    /\ inflight' = inflight \ {"_batch"}
    /\ DriverOk(1)
    /\ UNCHANGED <<node, file_path, config, ctx, to_version, paths, batch, failures,
                   loaded, started, entry, fetches, updated, origin,
                   fault>>

Migrate1BatchErr ==
    /\ pc = "s1_batch"
    /\ StoreFails("_batch")
    /\ inflight' = inflight \ {"_batch"}
    /\ DriverErr(1, "Database")
    /\ UNCHANGED <<store, config, ctx, to_version, paths, batch, loaded, started,
                   entry, fetches, updated, origin>>

(***************************************************************************)
(* to_version 2: a fresh identity is inserted in the document.             *)
(***************************************************************************)
Migrate2 ==
    /\ DriverCalls(2)
    /\ Enter(2)
    /\ \E identity \in Identities :
          config' = Insert(config, "identity", identity)
    /\ DriverOk(2)
    /\ UNCHANGED <<store, ctx, paths, batch, inflight, failures, loaded, fetches,
                   updated, origin,
                   fault>>

(***************************************************************************)
(* to_version 3: the single node record takes the context's ids.           *)
(***************************************************************************)
\* node().count(vec![]).
CountNodes(table) == Cardinality(DOMAIN table)

\* The precondition checked as "not too many nodes" only.
NodeCountAtMostOne(n) == n <= 1

\* The precondition of the step.
NodeCountOk(n) == n = 1

\* The update without the node_peer_id.
UpdateManyNodesPubIdOnly(table, c) ==
    [r \in DOMAIN table |-> [table[r] EXCEPT !.pub_id = c.node_id]]

\* node().update_many(vec![], [pub_id := node_id bytes,
\*                             node_peer_id := Some(peer_id.to_string())]).
UpdateManyNodes(table, c) ==
    [r \in DOMAIN table |->
        [pub_id |-> c.node_id, node_peer_id |-> Some(c.peer_id.str)]]

Migrate3Call ==
    /\ DriverCalls(3)
    /\ Enter(3)
    /\ pc' = "s3_count"
    /\ inflight' = inflight \cup {"count"}
    /\ UNCHANGED <<store, config, version, ctx, cur, paths, batch, failures, err,
                   loaded, returned, fetches, updated, origin,
                   fault>>

Migrate3CountErr ==
    /\ pc = "s3_count"
    /\ StoreFails("count")
    /\ inflight' = inflight \ {"count"}
    /\ DriverErr(3, "Database")
    /\ UNCHANGED <<store, config, ctx, to_version, paths, batch, loaded, started,
                   entry, fetches, updated, origin>>

\* The count is not 1: Err(MigratorError::Custom(..)).
Migrate3CountBad ==
    /\ pc = "s3_count"
    /\ ~NodeCountOk(CountNodes(node))
    /\ inflight' = inflight \ {"count"}
    /\ DriverErr(3, "Custom")
    /\ UNCHANGED <<store, config, ctx, to_version, paths, batch, failures, loaded,
                   started, entry, fetches, updated, origin,
                   fault>>

\* The count is 1: the update is issued and awaited.
Migrate3CountOk ==
    /\ pc = "s3_count"
    /\ NodeCountOk(CountNodes(node))
    /\ pc' = "s3_update"
    /\ inflight' = (inflight \ {"count"}) \cup {"update_many"}
    /\ UNCHANGED <<store, config, version, ctx, cur, to_version, paths, batch,
                   failures, err, hist>>

Migrate3UpdateOk ==
    /\ pc = "s3_update"
    /\ node' = UpdateManyNodes(node, ctx)
    /\ config' = Insert(config, "node_id", UuidToString(ctx.node_id))
    /\ inflight' = inflight \ {"update_many"}
    /\ DriverOk(3)
    /\ UNCHANGED <<indexer_rule, file_path, ctx, to_version, paths, batch, failures,
                   loaded, started, entry, fetches, updated, origin,
                   fault>>

\* node_id is put in the document before the update is awaited, so that a
\* failed update leaves it there.
Migrate3UpdateErrAfterInsert ==
    /\ pc = "s3_update"
    /\ StoreFails("update_many")
    /\ config' = Insert(config, "node_id", UuidToString(ctx.node_id))
    /\ inflight' = inflight \ {"update_many"}
    /\ DriverErr(3, "Database")
    /\ UNCHANGED <<store, ctx, to_version, paths, batch, loaded, started,
                   entry, fetches, updated, origin>>

Migrate3UpdateErr ==
    /\ pc = "s3_update"
    /\ StoreFails("update_many")
    /\ inflight' = inflight \ {"update_many"}
    /\ DriverErr(3, "Database")
    /\ UNCHANGED <<store, config, ctx, to_version, paths, batch, loaded, started,
                   entry, fetches, updated, origin>>

(***************************************************************************)
(* to_version 4: nothing to do.                                            *)
(***************************************************************************)
\* The step records its own version in the document.
Migrate4WritesVersion ==
    /\ DriverCalls(4)
    /\ Enter(4)
    /\ version' = 4
    /\ pc' = "idle"
    /\ cur' = 4
    /\ returned' = Append(returned, [v |-> 4, res |-> "Ok"])
    /\ UNCHANGED <<store, config, ctx, paths, batch, inflight, failures, err,
                   loaded, fetches, updated, origin, fault>>

Migrate4 ==
    /\ DriverCalls(4)
    /\ Enter(4)
    /\ DriverOk(4)
    /\ UNCHANGED <<store, config, ctx, paths, batch, inflight, failures, loaded,
                   fetches, updated, origin,
                   fault>>


(***************************************************************************)
(* to_version 5: the legacy size_in_bytes strings of the file_path rows    *)
(* are rewritten as big-endian bytes, a page at a time.                    *)
(***************************************************************************)
\* The query without its predicate: every row is a candidate.
MatchingAll(table) == DOMAIN table

\* not![file_path::size_in_bytes::equals(None)].
Matching(table) == {i \in DOMAIN table : table[i].size_in_bytes # None}

\* The pages of a query that takes one row less.
PageIdsShort(table) ==
    LET m == Matching(table)
    IN  IF Cardinality(m) <= PageSize - 1 THEN {m}
        ELSE { {i \in m : Cardinality({j \in m : j < i}) < PageSize - 1},
               {i \in m : Cardinality({j \in m : j > i}) < PageSize - 1} }

\* The pages find_many(..).take(PageSize) may return: every matching row
\* when they fit, else PageSize of them; the query states no order, and the
\* model lets the store return the lowest or the highest ids.
PageIds(table) ==
    LET m == Matching(table)
    IN  IF Cardinality(m) <= PageSize THEN {m}
        ELSE { {i \in m : Cardinality({j \in m : j < i}) < PageSize},
               {i \in m : Cardinality({j \in m : j > i}) < PageSize} }

\* select!({ id size_in_bytes }).
Select(table, ids) == [i \in ids |-> table[i].size_in_bytes]

\* The staged updates when a row whose size does not parse is dropped by
\* the filter_map instead of being updated.
StagedSkipFailed(page) ==
    [i \in {j \in DOMAIN page : page[j] # None /\ ConvertSize(page[j][1]) # None} |->
        [size_in_bytes_bytes |-> ConvertSize(page[i][1]),
         size_in_bytes |-> None]]

\* paths.into_iter().filter_map(..): a row without a legacy size is dropped
\* (maybe_missing), every other row gets one update, which sets
\* size_in_bytes_bytes to the converted size and size_in_bytes to None.
Staged(page) ==
    [i \in {j \in DOMAIN page : page[j] # None} |->
        [size_in_bytes_bytes |-> ConvertSize(page[i][1]),
         size_in_bytes |-> None]]

\* The updates applied without size_in_bytes::set(None): the converted size
\* is written and the legacy size stays.
BatchFilePathsKeepLegacy(table, updates) ==
    [i \in DOMAIN table |->
        IF i \in DOMAIN updates
        THEN [table[i] EXCEPT !.size_in_bytes_bytes = updates[i].size_in_bytes_bytes]
        ELSE table[i]]

\* db._batch(updates): each file_path().update(id = .., ..) applied, together.
BatchFilePaths(table, updates) ==
    [i \in DOMAIN table |-> IF i \in DOMAIN updates THEN updates[i] ELSE table[i]]

\* The first find_many of the loop is issued and awaited.
Migrate5Call ==
    /\ DriverCalls(5)
    /\ Enter(5)
    /\ pc' = "s5_fetch"
    /\ inflight' = inflight \cup {"find_many"}
    /\ fetches' = 1
    /\ UNCHANGED <<store, config, version, ctx, cur, paths, batch, failures, err,
                   loaded, returned, updated, origin,
                   fault>>

\* The failure of the find_many is swallowed: the loop breaks and migrate
\* returns Ok(()).
Migrate5FetchErrSwallowed ==
    /\ pc = "s5_fetch"
    /\ StoreFails("find_many")
    /\ inflight' = inflight \ {"find_many"}
    /\ DriverOk(5)
    /\ UNCHANGED <<store, config, ctx, to_version, paths, batch, loaded, started,
                   entry, fetches, updated, origin>>

Migrate5FetchErr ==
    /\ pc = "s5_fetch"
    /\ StoreFails("find_many")
    /\ inflight' = inflight \ {"find_many"}
    /\ DriverErr(5, "Database")
    /\ UNCHANGED <<store, config, ctx, to_version, paths, batch, loaded, started,
                   entry, fetches, updated, origin>>

\* The loop breaks on a page that is not full, before its batch.
Migrate5FetchShortBreak ==
    /\ pc = "s5_fetch"
    /\ Cardinality(Matching(file_path)) < PageSize
    /\ inflight' = inflight \ {"find_many"}
    /\ DriverOk(5)
    /\ UNCHANGED <<store, config, ctx, to_version, paths, batch, failures, loaded,
                   started, entry, fetches, updated, origin, fault>>

\* paths.is_empty(): break, and migrate returns Ok(()).
Migrate5FetchEmpty ==
    /\ pc = "s5_fetch"
    /\ Matching(file_path) = {}
    /\ inflight' = inflight \ {"find_many"}
    /\ DriverOk(5)
    /\ UNCHANGED <<store, config, ctx, to_version, paths, batch, failures, loaded,
                   started, entry, fetches, updated, origin,
                   fault>>

\* The page's batch is started without being awaited: the loop goes on to
\* the next find_many while the batch is still in flight.
Migrate5FetchPageNoAwait ==
    /\ pc = "s5_fetch"
    /\ Matching(file_path) # {}
    /\ \E ids \in PageIds(file_path) :
          /\ paths' = Select(file_path, ids)
          /\ batch' = Staged(paths')
    /\ pc' = "s5_fetch"
    /\ inflight' = inflight \cup {"_batch"}
    /\ fetches' = fetches + 1
    /\ UNCHANGED <<store, config, version, ctx, cur, to_version, failures,
                   err, loaded, started, returned, entry, updated, origin,
                   fault>>

\* A page came back: its batch is issued and awaited.
Migrate5FetchPage ==
    /\ pc = "s5_fetch"
    /\ Matching(file_path) # {}
    /\ \E ids \in PageIds(file_path) :
          /\ paths' = Select(file_path, ids)
          /\ batch' = Staged(paths')
    /\ pc' = "s5_batch"
    /\ inflight' = (inflight \ {"find_many"}) \cup {"_batch"}
    /\ UNCHANGED <<store, config, version, ctx, cur, to_version, failures,
                   err, hist>>

\* The batch committed: the loop issues the next find_many.
Migrate5BatchOk ==
    /\ pc = "s5_batch"
    /\ file_path' = BatchFilePaths(file_path, batch)
    /\ updated' = updated \cup DOMAIN batch
    /\ paths' = <<>>
    /\ batch' = <<>>
    /\ pc' = "s5_fetch"
    /\ inflight' = (inflight \ {"_batch"}) \cup {"find_many"}
    /\ fetches' = fetches + 1
    /\ UNCHANGED <<indexer_rule, node, config, version, ctx, cur, to_version,
                   failures, err, loaded, started, returned, entry, origin,
                   fault>>

ClearLegacy(table, ids) ==
    [i \in DOMAIN table |->
        IF i \in ids THEN [table[i] EXCEPT !.size_in_bytes = None]
        ELSE table[i]]

\* The batch fails after the legacy sizes of the page's rows were cleared
\* and before the converted sizes were written: not failing as a unit.
Migrate5BatchErrPartial ==
    /\ pc = "s5_batch"
    /\ StoreFails("_batch")
    /\ file_path' = ClearLegacy(file_path, DOMAIN batch)
    /\ paths' = <<>>
    /\ batch' = <<>>
    /\ inflight' = inflight \ {"_batch"}
    /\ DriverErr(5, "Database")
    /\ UNCHANGED <<indexer_rule, node, config, ctx, to_version, loaded,
                   started, entry, fetches, updated, origin>>

\* The failure of the batch is passed over: the loop goes on to the next
\* find_many.
Migrate5BatchErrIgnored ==
    /\ pc = "s5_batch"
    /\ StoreFails("_batch")
    /\ paths' = <<>>
    /\ batch' = <<>>
    /\ pc' = "s5_fetch"
    /\ inflight' = (inflight \ {"_batch"}) \cup {"find_many"}
    /\ fetches' = fetches + 1
    /\ UNCHANGED <<store, config, version, ctx, cur, to_version, err, loaded,
                   started, returned, entry, updated, origin>>

Migrate5BatchErr ==
    /\ pc = "s5_batch"
    /\ StoreFails("_batch")
    /\ paths' = <<>>
    /\ batch' = <<>>
    /\ inflight' = inflight \ {"_batch"}
    /\ DriverErr(5, "Database")
    /\ UNCHANGED <<store, config, ctx, to_version, loaded, started, entry,
                   fetches, updated, origin>>

(***************************************************************************)
(* The specification.                                                      *)
(***************************************************************************)
Next ==
    \/ Migrate1Call
    \/ Migrate1BatchOk
    \/ Migrate1BatchErr
    \/ Migrate2
    \/ Migrate3Call
    \/ Migrate3CountErr
    \/ Migrate3CountBad
    \/ Migrate3CountOk
    \/ Migrate3UpdateOk
    \/ Migrate3UpdateErr
    \/ Migrate4
    \/ Migrate5Call
    \/ Migrate5FetchErr
    \/ Migrate5FetchEmpty
    \/ Migrate5FetchPage
    \/ Migrate5BatchOk
    \/ Migrate5BatchErr
    \/ DriverFinish
    \/ DriverRetry

Spec == Init /\ [][Next]_vars

\* A store call that is awaited returns: while migrate(5) is in its loop,
\* waiting for a find_many or a batch, it is resumed in the end.
LoopResumes ==
    /\ pc \in {"s5_fetch", "s5_batch"}
    /\ pc' \in {"s5_fetch", "s5_batch", "idle", "failed"} \ {pc}

FairSpec == Spec /\ WF_pc(LoopResumes)

\* migrate() called by the driver and, outside the driver's range of
\* versions, on its own.
CallNext ==
    \/ Next
    \/ Migrate0
    \/ MigrateMissing

CallSpec == Init /\ [][CallNext]_vars

(***************************************************************************)
(* What the steps leave behind, stated from the stored data alone.         *)
(***************************************************************************)
Last(seq) == seq[Len(seq)]

\* The Uuid whose 128-bit value is i, for i below 256.
SmallUuid(i) == [k \in 1..16 |-> IF k = 16 THEN i ELSE 0]

\* Each of the four built-in rules carries the Uuid of its position.
RulesRekeyed ==
    \A r \in DOMAIN indexer_rule :
        /\ indexer_rule[r].name = Some("No OS protected") =>
               indexer_rule[r].pub_id = SmallUuid(0)
        /\ indexer_rule[r].name = Some("No Hidden") =>
               indexer_rule[r].pub_id = SmallUuid(1)
        /\ indexer_rule[r].name = Some("No Git") =>
               indexer_rule[r].pub_id = SmallUuid(2)
        /\ indexer_rule[r].name = Some("Only Images") =>
               indexer_rule[r].pub_id = SmallUuid(3)

\* Every node record carries the context's node id and peer id.
NodesRekeyed ==
    \A r \in DOMAIN node :
        /\ node[r].pub_id = ctx.node_id
        /\ node[r].node_peer_id = Some(ctx.peer_id.str)

\* No file_path row has a legacy size_in_bytes left.
NoLegacySize == \A i \in DOMAIN file_path : file_path[i].size_in_bytes = None

\* The versions whose step returned Ok in this run.
Succeeded == {returned[i].v : i \in {j \in 1..Len(returned) : returned[j].res = "Ok"}}

\* migrate(v) has just returned Ok to the driver.
JustReturnedOk(v) ==
    /\ pc = "idle"
    /\ returned # <<>>
    /\ Last(returned) = [v |-> v, res |-> "Ok"]

(***************************************************************************)
(* C1: from every stored version V in 0..4, with one node record and no    *)
(* failing store call, no migrate call fails, and the finished run has the *)
(* document recorded at version 5 after exactly the steps V+1..5, each Ok, *)
(* with the store showing every executed step: the four named rules        *)
(* re-keyed (step 1), the node record re-keyed to the context's ids        *)
(* (step 3), no file_path row with a legacy size left (step 5).            *)
(***************************************************************************)
C1_FullRun ==
    (origin.version < CURRENT_VERSION /\ origin.nodes = 1 /\ failures = 0) =>
        /\ pc # "failed"
        /\ pc = "done" =>
              /\ version = CURRENT_VERSION
              /\ returned = [i \in 1..(CURRENT_VERSION - origin.version) |->
                                [v |-> origin.version + i, res |-> "Ok"]]
              /\ origin.version < 1 => RulesRekeyed
              /\ origin.version < 3 =>
                     Cardinality(DOMAIN node) = 1 /\ NodesRekeyed
              /\ NoLegacySize

C1_Witness ==
    /\ pc = "done" /\ failures = 0
    /\ origin.version = 0 /\ origin.nodes = 1 /\ origin.builtins
    /\ updated # {}
    /\ version = CURRENT_VERSION


(***************************************************************************)
(* C2: in a run the steps begin in strictly increasing version order, none *)
(* skipped or repeated; the step for N+1 begins only after the step for N  *)
(* returned Ok; at most one step is in progress, and at most one store     *)
(* call (in step 5: one page fetch or one batch) is in flight.             *)
(***************************************************************************)
C2_Ordering ==
    /\ \A i \in 1..Len(started) : started[i] = started[1] + (i - 1)
    /\ Len(returned) <= Len(started)
    /\ Len(started) <= Len(returned) + 1
    /\ \A i \in 1..Len(returned) : returned[i].v = started[i]
    /\ \A i \in 1..(Len(started) - 1) : returned[i].res = "Ok"
    /\ started # <<>> => Last(started) \in {cur, cur + 1}
    /\ Cardinality(inflight) <= 1
    /\ inflight # {} => Len(started) = Len(returned) + 1
    /\ pc \in {"s5_fetch", "s5_batch"} =>
           inflight = {IF pc = "s5_fetch" THEN "find_many" ELSE "_batch"}

C2_Witness ==
    /\ started = <<1, 2, 3, 4, 5>>
    /\ pc = "s5_batch"
    /\ inflight = {"_batch"}
    /\ fetches = 1

(***************************************************************************)
(* C3: when a store call fails, or migrate(K) returns Err, the run is      *)
(* failed at K: no step for a version above K has begun, the document's    *)
(* recorded version is still the one it was loaded with, and what the      *)
(* steps below K that returned Ok in this run did is still in place.       *)
(***************************************************************************)
C3_FailureStops ==
    (pc = "failed" \/ fault # None) =>
        /\ pc = "failed"
        /\ returned # <<>>
        /\ Last(returned) = [v |-> to_version, res |-> "Err"]
        /\ Last(started) = to_version
        /\ Len(returned) = Len(started)
        /\ cur = to_version - 1
        /\ version = loaded
        /\ 1 \in Succeeded => RulesRekeyed
        /\ 2 \in Succeeded => "identity" \in DOMAIN config
        /\ 3 \in Succeeded =>
               /\ NodesRekeyed
               /\ "node_id" \in DOMAIN config
               /\ config.node_id = UuidToString(ctx.node_id)
        /\ (5 = to_version /\ updated # {}) =>
               \A i \in updated : file_path[i].size_in_bytes = None

C3_Witness ==
    /\ pc = "failed"
    /\ to_version = 5
    /\ Succeeded = {1, 2, 3, 4}
    /\ updated # {}
    /\ version = 0


(***************************************************************************)
(* The state a failure-free run from the initial state ends in.            *)
(***************************************************************************)
RECURSIVE Backfill(_)
Backfill(table) ==
    IF Matching(table) = {} THEN table
    ELSE Backfill(BatchFilePaths(table,
             Staged(Select(table, CHOOSE ids \in PageIds(table) : TRUE))))

CleanRules ==
    IF origin.version < 1
    THEN BatchRules(RuleTable(origin.builtins), RuleUpdates)
    ELSE RuleTable(origin.builtins)

CleanNodes ==
    IF origin.version < 3
    THEN UpdateManyNodes(NodeTable(origin.nodes), ctx)
    ELSE NodeTable(origin.nodes)

CleanFilePaths ==
    IF origin.version < 5
    THEN Backfill(FilePathTable(origin.rows, origin.offset))
    ELSE FilePathTable(origin.rows, origin.offset)

\* The document's fields, the value of identity left open.
CleanConfig ==
    LET doc == DocumentAt(origin.version)
    IN  IF origin.version < 3
        THEN Insert(Insert(doc, "identity", <<>>), "node_id",
                    UuidToString(ctx.node_id))
        ELSE doc

(***************************************************************************)
(* C4: a run that ends, after any failures (a failed batch of step 1, a    *)
(* failed count or update of step 3, a failed page fetch or page batch of  *)
(* step 5) each followed by a re-run from the failed version, ends in the  *)
(* store state and the document fields of the failure-free run from the    *)
(* same initial state, the generated identity excepted.                    *)
(***************************************************************************)
C4_RetryEqualsCleanRun ==
    pc = "done" =>
        /\ indexer_rule = CleanRules
        /\ node = CleanNodes
        /\ file_path = CleanFilePaths
        /\ DOMAIN config = DOMAIN CleanConfig
        /\ \A f \in DOMAIN config \ {"identity"} : config[f] = CleanConfig[f]
        /\ version = CURRENT_VERSION

C4_Witness ==
    /\ pc = "done"
    /\ failures > 0
    /\ origin.rows > PageSize
    /\ file_path = CleanFilePaths


(***************************************************************************)
(* C5: migrate(3) against a store with no node record or with two or more  *)
(* issues no mutation and returns the Custom error, and the node records,  *)
(* the other tables and every field of the document (no node_id is         *)
(* inserted) are then as they were when the call was entered.              *)
(***************************************************************************)
C5_PreconditionFailure ==
    /\ pc = "s3_update" => CountNodes(node) = 1
    /\ (returned # <<>> /\ Last(returned) = [v |-> 3, res |-> "Ok"]) =>
           CountNodes(entry.node) = 1
    /\ (pc = "failed" /\ to_version = 3 /\ CountNodes(node) # 1
            /\ fault = None) => err = Some("Custom")
    /\ (pc = "failed" /\ to_version = 3 /\ err = Some("Custom")) =>
           /\ CountNodes(node) # 1
           /\ inflight = {}
           /\ indexer_rule = entry.indexer_rule
           /\ node = entry.node
           /\ file_path = entry.file_path
           /\ config = entry.config
           /\ "node_id" \notin DOMAIN config

C5_Witness ==
    /\ pc = "failed" /\ to_version = 3 /\ err = Some("Custom")
    /\ CountNodes(node) = 0
    /\ Succeeded = {1, 2}

(***************************************************************************)
(* C6: migrate(3) against a store with exactly one node record, its store  *)
(* calls succeeding, returns Ok; the record's pub_id is then the context's *)
(* node id and its node_peer_id the context's peer id, the document's      *)
(* node_id is the context's node id, and there is still one node record.   *)
(***************************************************************************)
HexVal(c) == (CHOOSE i \in 1..16 : HexChars[i] = c) - 1

\* The place of the h-th hex digit in the hyphenated form.
HexPos(h) ==
    h + (IF h > 8 THEN 1 ELSE 0) + (IF h > 12 THEN 1 ELSE 0)
      + (IF h > 16 THEN 1 ELSE 0) + (IF h > 20 THEN 1 ELSE 0)

\* The Uuid a hyphenated string denotes.
UuidFromString(str) ==
    [k \in 1..16 |->
        16 * HexVal(str[HexPos(2 * k - 1)]) + HexVal(str[HexPos(2 * k)])]

C6_PreconditionSuccess ==
    /\ JustReturnedOk(3) =>
           /\ CountNodes(entry.node) = 1
           /\ DOMAIN node = DOMAIN entry.node
           /\ \A r \in DOMAIN node :
                  /\ node[r].pub_id = ctx.node_id
                  /\ node[r].node_peer_id = Some(ctx.peer_id.str)
           /\ "node_id" \in DOMAIN config
           /\ Len(config.node_id) = 36
           /\ \A p \in {9, 14, 19, 24} : config.node_id[p] = "-"
           /\ UuidFromString(config.node_id) = ctx.node_id
    /\ (pc = "failed" /\ to_version = 3 /\ CountNodes(node) = 1) =>
           fault # None

C6_Witness ==
    /\ JustReturnedOk(3)
    /\ CountNodes(node) = 1
    /\ node[1].pub_id = ctx.node_id
    /\ node[1].pub_id # entry.node[1].pub_id
    /\ ctx.node_id[1] = 18


(***************************************************************************)
(* C7 and its amendment.  R is the number of rows that matched when        *)
(* migrate(5) was entered.                                                 *)
(***************************************************************************)
MatchingAtEntry == Cardinality(Matching(entry.file_path))

CeilDiv(a, b) == (a + b - 1) \div b

\* C7 as claimed: a successful migrate(5) has issued at most ceil(R / 500)
\* find_many calls.
C7_Original ==
    JustReturnedOk(5) => fetches <= CeilDiv(MatchingAtEntry, PageSize)

\* C7 as amended: a successful migrate(5) has issued exactly
\* ceil(R / 500) + 1 find_many calls, the last being the one that returned
\* the empty page; no migrate(5) issues more.
C7_FetchBound ==
    /\ (to_version = 5 /\ pc \in {"s5_fetch", "s5_batch", "failed"}) =>
           fetches <= CeilDiv(MatchingAtEntry, PageSize) + 1
    /\ JustReturnedOk(5) =>
           fetches = CeilDiv(MatchingAtEntry, PageSize) + 1

C7_Witness ==
    /\ JustReturnedOk(5)
    /\ MatchingAtEntry > PageSize
    /\ fetches = CeilDiv(MatchingAtEntry, PageSize) + 1

(***************************************************************************)
(* C8: whatever the file_path table holds, rows whose legacy size never    *)
(* parses included, the loop of migrate(5) is left in the end; migrate(5)  *)
(* returns Ok only from a find_many that found no row, and no row has a    *)
(* legacy size_in_bytes set at that point.                                 *)
(***************************************************************************)
InBackfill == pc \in {"s5_fetch", "s5_batch"}

C8_BackfillTerminates ==
    /\ [](JustReturnedOk(5) => (Matching(file_path) = {} /\ paths = <<>>))
    /\ (InBackfill ~> ~InBackfill)

C8_Witness ==
    /\ JustReturnedOk(5)
    /\ \E i \in updated :
          /\ entry.file_path[i].size_in_bytes = Some(<<"a", "b", "c">>)
          /\ file_path[i].size_in_bytes_bytes = None
    /\ fetches = 2

(***************************************************************************)
(* C9 and C10 speak of the legacy string a row held before the backfill,   *)
(* which is one of the samples; what each sample is to become is written   *)
(* out here by hand, byte by byte.                                         *)
(***************************************************************************)
SampleOf(s) == CHOOSE k \in 1..NumSamples : LegacySamples[k] = s

\* "1024", "abc", "", "-1", 2^64 - 1, 2^64, "+5".
ExpectedBytes ==
    << Some(<<0, 0, 0, 0, 0, 0, 4, 0>>),
       None,
       None,
       None,
       Some(<<255, 255, 255, 255, 255, 255, 255, 255>>),
       None,
       Some(<<0, 0, 0, 0, 0, 0, 0, 5>>) >>

\* u64::from_be_bytes, on limbs.
FromBeBytes(b) ==
    << b[7] * 256 + b[8], b[5] * 256 + b[6],
       b[3] * 256 + b[4], b[1] * 256 + b[2] >>

\* Row i of the initial table.
OriginalRow(i) == FilePathTable(origin.rows, origin.offset)[i]

\* The legacy size row i held in the initial table.
OriginalSize(i) == FilePathTable(origin.rows, origin.offset)[i].size_in_bytes

(***************************************************************************)
(* C9: every row of a fetched page has an update in the page's batch, and  *)
(* a row rewritten by a committed batch has its legacy size cleared and    *)
(* holds what its legacy string is to become: when the string parses as    *)
(* the u64 n, the eight big-endian bytes of n (which decode to n), and no  *)
(* converted size when it does not parse (non-numeric, empty, negative,    *)
(* above 2^64 - 1); such a row is in no page fetched later.                *)
(***************************************************************************)
\* What a sample is to become is the big-endian encoding of its value.
ExpectedIsEncoding(k) ==
    LET r == ParseU64(LegacySamples[k])
        b == ExpectedBytes[k]
    IN  /\ r.ok => b # None /\ Len(b[1]) = 8 /\ FromBeBytes(b[1]) = r.val
        /\ ~r.ok => b = None

RowConverted(i, size) ==
    /\ size # None
    /\ file_path[i] = [size_in_bytes |-> None,
                       size_in_bytes_bytes |-> ExpectedBytes[SampleOf(size[1])]]

C9_RowConversion ==
    /\ pc = "s5_batch" => DOMAIN batch = DOMAIN paths
    /\ \A k \in 1..NumSamples : ExpectedIsEncoding(k)
    /\ \A i \in updated : RowConverted(i, OriginalSize(i))
    /\ updated \cap Matching(file_path) = {}
    /\ DOMAIN paths \cap updated = {}

C9_Witness ==
    /\ pc = "s5_fetch" /\ fetches = 2
    /\ \E i, j \in updated :
          /\ OriginalSize(i) = Some(<<"1", "0", "2", "4">>)
          /\ file_path[i] = [size_in_bytes |-> None,
                             size_in_bytes_bytes |-> Some(<<0, 0, 0, 0, 0, 0, 4, 0>>)]
          /\ OriginalSize(j) = Some(<<"a", "b", "c">>)
          /\ file_path[j] = [size_in_bytes |-> None, size_in_bytes_bytes |-> None]

(***************************************************************************)
(* C10 and its amendment.  A row fails conversion when the legacy size it  *)
(* held on entry to migrate(5) converts to no bytes.                       *)
(***************************************************************************)
FailsConversion(size) == size # None /\ ConvertSize(size[1]) = None

\* migrate(5) fails only on a failed store call.
FailureNotSurfaced ==
    (to_version = 5 /\ pc = "failed") =>
        /\ fault # None
        /\ fault[1].v = 5

\* C10 as claimed: no update is staged for a row that fails conversion, the
\* row still holds its legacy size once migrate(5) has returned Ok, and
\* migrate(5) does not fail on it.
C10_Original ==
    /\ pc = "s5_batch" =>
           \A i \in DOMAIN paths : FailsConversion(paths[i]) => i \notin DOMAIN batch
    /\ JustReturnedOk(5) =>
           \A i \in DOMAIN file_path :
               FailsConversion(entry.file_path[i].size_in_bytes) =>
                   file_path[i].size_in_bytes = entry.file_path[i].size_in_bytes
    /\ FailureNotSurfaced

\* C10 as amended: a row that fails conversion has an update staged in its
\* page's batch, which sets no converted size and clears the legacy size;
\* once migrate(5) has returned Ok the row has neither a legacy nor a
\* converted size; migrate(5) does not fail on it.
C10_FailedRowCleared ==
    /\ pc = "s5_batch" =>
           \A i \in DOMAIN paths :
               FailsConversion(paths[i]) =>
                   /\ i \in DOMAIN batch
                   /\ batch[i] = [size_in_bytes_bytes |-> None, size_in_bytes |-> None]
    /\ JustReturnedOk(5) =>
           \A i \in DOMAIN file_path :
               FailsConversion(entry.file_path[i].size_in_bytes) =>
                   file_path[i] = [size_in_bytes |-> None, size_in_bytes_bytes |-> None]
    /\ FailureNotSurfaced

C10_Witness ==
    /\ JustReturnedOk(5)
    /\ fault = None
    /\ \E i \in DOMAIN file_path :
          /\ FailsConversion(entry.file_path[i].size_in_bytes)
          /\ entry.file_path[i].size_in_bytes = Some(<<"-", "1">>)
          /\ file_path[i] = [size_in_bytes |-> None, size_in_bytes_bytes |-> None]

(***************************************************************************)
(* C11: when the batch of a page of migrate(5) has failed, migrate(5) has  *)
(* returned that error with no store call left in flight and no find_many  *)
(* issued beyond the one that fetched the failing page; every row that no  *)
(* committed batch rewrote, the rows of the failing page among them, is as *)
(* in the initial table, and every row of a committed page is converted.   *)
(***************************************************************************)
BatchFailed == fault = Some([v |-> 5, call |-> "_batch"])

\* The rows migrate(5) has rewritten since it was entered.
RewrittenSinceEntry == Matching(entry.file_path) \ Matching(file_path)

C11_BatchFailure ==
    BatchFailed =>
        /\ pc = "failed"
        /\ err = Some("Database")
        /\ Last(returned) = [v |-> 5, res |-> "Err"]
        /\ inflight = {}
        /\ fetches = CeilDiv(Cardinality(RewrittenSinceEntry), PageSize) + 1
        /\ Matching(file_path) # {}
        /\ \A i \in DOMAIN file_path \ updated : file_path[i] = OriginalRow(i)
        /\ \A i \in updated : RowConverted(i, OriginalSize(i))

C11_Witness ==
    /\ BatchFailed
    /\ pc = "failed"
    /\ fetches = 2
    /\ Cardinality(RewrittenSinceEntry) = PageSize
    /\ Matching(file_path) # {}
    /\ \A i \in Matching(file_path) : file_path[i] = OriginalRow(i)

(***************************************************************************)
(* C12: a migrate(5) entered again after an earlier one was cut short with *)
(* some pages committed (a find_many failing after k batches) fetches only *)
(* rows whose legacy size is still set, stages no update for a row that a  *)
(* committed batch has rewritten, before or since it was entered, and      *)
(* returns Ok with the file_path table of the failure-free run.            *)
(***************************************************************************)
\* The rows committed batches had rewritten when migrate(5) was entered.
ConvertedBeforeEntry ==
    {i \in updated : entry.file_path[i].size_in_bytes = None}

C12_Resumable ==
    /\ pc = "s5_batch" =>
           /\ \A i \in DOMAIN paths :
                  /\ paths[i] # None
                  /\ file_path[i].size_in_bytes = paths[i]
           /\ DOMAIN batch \cap updated = {}
           /\ DOMAIN batch \cap ConvertedBeforeEntry = {}
    /\ JustReturnedOk(5) => file_path = CleanFilePaths

C12_Witness ==
    /\ JustReturnedOk(5)
    /\ started = <<5>>
    /\ failures > 0
    /\ Cardinality(ConvertedBeforeEntry) = PageSize
    /\ RewrittenSinceEntry # {}
    /\ file_path = CleanFilePaths

(***************************************************************************)
(* C13: every version in 0..CURRENT_VERSION has an arm of its own, so no   *)
(* call for such a version, the driver's calls among them, panics; a call  *)
(* for a higher version panics: it neither returns Ok nor Err, and the     *)
(* tables, the document's fields and its version are as on entry.          *)
(***************************************************************************)
C13_DenseStepTable ==
    /\ CURRENT_VERSION = 5
    /\ \A v \in 0..CURRENT_VERSION : StepArm(v) # "unreachable"
    /\ cur \in 0..CURRENT_VERSION
    /\ (pc = "idle" /\ cur < CURRENT_VERSION) => StepArm(cur + 1) # "unreachable"
    /\ to_version \in 0..CURRENT_VERSION => pc # "panicked"
    /\ to_version > CURRENT_VERSION =>
           /\ pc = "panicked"
           /\ Last(started) = to_version
           /\ Len(returned) < Len(started)
           /\ \A k \in 1..Len(returned) : returned[k].v # to_version
           /\ inflight = {}
           /\ indexer_rule = entry.indexer_rule
           /\ node = entry.node
           /\ file_path = entry.file_path
           /\ config = entry.config
           /\ version = loaded

C13_Witness ==
    /\ pc = "panicked"
    /\ to_version = CURRENT_VERSION + 1
    /\ started = <<1, 2, 6>>
    /\ "identity" \in DOMAIN config
    /\ config = entry.config

(***************************************************************************)
(* C14: no step lowers the document's recorded version, which is never     *)
(* below the version the document was loaded with; no step of migrate()    *)
(* changes it (it changes only when the driver records the finished run),  *)
(* and migrate() puts no "version" key among the document's fields.        *)
(***************************************************************************)
C14_VersionMonotonic ==
    [][/\ version' >= version
       /\ version' >= loaded'
       /\ loaded' = loaded
       /\ version' # version => (pc = "idle" /\ pc' = "done")
       /\ "version" \notin DOMAIN config'
       /\ pc' = "failed" => version' = loaded']_vars

C14_Witness ==
    /\ pc = "done"
    /\ loaded = 0
    /\ version = CURRENT_VERSION
    /\ failures > 0
    /\ "version" \notin DOMAIN config

(***************************************************************************)
(* C15: what each step leaves alone, against the tables and the document   *)
(* as they were when the call was entered.  migrate(0), (2) and (4) issue  *)
(* no store call and change no table; migrate(1) changes no table when no  *)
(* rule has one of the four names; migrate(0), (1), (4) and (5) change no  *)
(* field of the document; migrate(2) changes the identity field alone and  *)
(* migrate(3) the node_id field alone.  So a document of version 0 taken   *)
(* through migrate(1) and migrate(2), no rule having one of the names, has *)
(* its fields as loaded with identity added, and the tables are as loaded. *)
(***************************************************************************)
\* migrate(v) is the call in progress or the last one made.
Called(v) == started # <<>> /\ Last(started) = v

StoreAsOnEntry ==
    /\ indexer_rule = entry.indexer_rule
    /\ node = entry.node
    /\ file_path = entry.file_path

\* The document's fields are those on entry, field f apart.
OnlyFieldChanged(f) ==
    /\ DOMAIN config \in {DOMAIN entry.config, DOMAIN entry.config \cup {f}}
    /\ \A g \in DOMAIN entry.config \ {f} : config[g] = entry.config[g]

NoBuiltinRule(table) ==
    \A r \in DOMAIN table :
        \A k \in 1..Len(RuleNames) : table[r].name # Some(RuleNames[k])

C15_StepFrames ==
    /\ \A v \in {0, 2, 4} : Called(v) => (inflight = {} /\ StoreAsOnEntry)
    /\ (Called(1) /\ NoBuiltinRule(entry.indexer_rule)) => StoreAsOnEntry
    /\ \A v \in {0, 1, 4, 5} : Called(v) => config = entry.config
    /\ Called(2) => OnlyFieldChanged("identity")
    /\ Called(3) => OnlyFieldChanged("node_id")
    /\ (origin.version = 0 /\ ~origin.builtins /\ JustReturnedOk(2)
            /\ {1, 2} \subseteq Succeeded) =>
           /\ "identity" \in DOMAIN config
           /\ config = Insert(DocumentAt(0), "identity", config.identity)
           /\ indexer_rule = RuleTable(FALSE)
           /\ node = NodeTable(origin.nodes)
           /\ file_path = FilePathTable(origin.rows, origin.offset)

C15_Witness ==
    /\ origin.version = 0 /\ ~origin.builtins
    /\ JustReturnedOk(2)
    /\ started = <<0, 1, 2>>
    /\ Succeeded = {0, 1, 2}
    /\ DOMAIN config = {"name", "identity"}
    /\ indexer_rule = RuleTable(FALSE)

(***************************************************************************)
(* C16: in the step in which migrate() returns Err the store call that     *)
(* failed is the one that was in flight and none is issued after it, and   *)
(* the document's fields are as on entry; after a failed count or a failed *)
(* update of migrate(3) the document has no node_id it did not have on     *)
(* entry; migrate(1) and migrate(5) never change the document.             *)
(***************************************************************************)
ReturnsErr == pc # "failed" /\ pc' = "failed"

C16_ErrorLeavesDocument ==
    /\ [][ReturnsErr =>
             /\ inflight # {}
             /\ inflight' = {}
             /\ fault' # None => fault'[1] = [v |-> to_version,
                                              call |-> CHOOSE c \in inflight : TRUE]
             /\ config = entry.config
             /\ config' = entry.config
             /\ to_version' = to_version]_vars
    /\ [](pc = "failed" =>
             /\ inflight = {}
             /\ config = entry.config
             /\ Last(returned) = [v |-> to_version, res |-> "Err"]
             /\ to_version = 3 =>
                    ("node_id" \in DOMAIN config <=> "node_id" \in DOMAIN entry.config))
    /\ []((Called(1) \/ Called(5)) => config = entry.config)

C16_Witness ==
    /\ pc = "failed"
    /\ fault = Some([v |-> 3, call |-> "update_many"])
    /\ "identity" \in DOMAIN config
    /\ "node_id" \notin DOMAIN config
    /\ CountNodes(node) = 1

(***************************************************************************)
(* C17: when migrate(1) has returned Ok, each rule named "No OS            *)
(* protected", "No Hidden", "No Git" or "Only Images" has as pub_id the    *)
(* Uuid of value 0, 1, 2 or 3, its name as on entry; every other rule,     *)
(* named otherwise or not named, is as on entry, and so are the other      *)
(* tables.  The updates go in one batch: while it is in flight, and when   *)
(* it has failed, the rules are as on entry.                               *)
(***************************************************************************)
\* The place of a name among the four, 0 when it is none of them.
BuiltinPlace(name) ==
    IF \E k \in 1..4 : name = Some(RuleNames[k])
    THEN CHOOSE k \in 1..4 : name = Some(RuleNames[k])
    ELSE 0

C17_RulesRekeyedByPosition ==
    /\ RuleNames = <<"No OS protected", "No Hidden", "No Git", "Only Images">>
    /\ JustReturnedOk(1) =>
           /\ DOMAIN indexer_rule = DOMAIN entry.indexer_rule
           /\ \A r \in DOMAIN indexer_rule :
                  LET place == BuiltinPlace(entry.indexer_rule[r].name)
                  IN  /\ DOMAIN indexer_rule[r] = {"name", "pub_id"}
                      /\ indexer_rule[r].name = entry.indexer_rule[r].name
                      /\ place > 0 => indexer_rule[r].pub_id = SmallUuid(place - 1)
                      /\ place = 0 => indexer_rule[r] = entry.indexer_rule[r]
           /\ node = entry.node
           /\ file_path = entry.file_path
    /\ pc = "s1_batch" =>
           (inflight = {"_batch"} /\ indexer_rule = entry.indexer_rule)
    /\ (pc = "failed" /\ to_version = 1) =>
           /\ fault = Some([v |-> 1, call |-> "_batch"])
           /\ indexer_rule = entry.indexer_rule

C17_Witness ==
    /\ JustReturnedOk(1)
    /\ origin.builtins
    /\ failures > 0
    /\ indexer_rule[1] = [name |-> Some("No Git"), pub_id |-> SmallUuid(2)]
    /\ indexer_rule[3] = [name |-> Some("Custom"), pub_id |-> OldPubId(3)]
    /\ indexer_rule[4] = [name |-> None, pub_id |-> OldPubId(4)]

(***************************************************************************)
(* C18: a page whose batch is in flight holds between 1 and 500 rows, all  *)
(* with a legacy size; one batch is in flight and it has an update for     *)
(* each row of the page and for no other row; a fetched page is followed   *)
(* by its batch, and when the batch commits the rows with a legacy size    *)
(* are those there were less the rows of the page, so fewer by the page's  *)
(* row count, every row outside the page being left as it was.             *)
(***************************************************************************)
PageFetched == pc = "s5_fetch" /\ pc' = "s5_batch"

BatchCommitted == pc = "s5_batch" /\ pc' = "s5_fetch"

C18_PageShrinksMatching ==
    /\ [](pc = "s5_batch" =>
             /\ Cardinality(DOMAIN paths) \in 1..PageSize
             /\ DOMAIN paths \subseteq Matching(file_path)
             /\ DOMAIN batch = DOMAIN paths
             /\ inflight = {"_batch"})
    /\ [][PageFetched =>
             /\ file_path' = file_path
             /\ fetches' = fetches
             /\ DOMAIN paths' # {}]_vars
    /\ [][BatchCommitted =>
             /\ Matching(file_path') = Matching(file_path) \ DOMAIN paths
             /\ Cardinality(Matching(file_path')) =
                    Cardinality(Matching(file_path)) - Cardinality(DOMAIN paths)
             /\ Cardinality(Matching(file_path')) < Cardinality(Matching(file_path))
             /\ \A i \in DOMAIN file_path \ DOMAIN paths :
                    file_path'[i] = file_path[i]
             /\ fetches' = fetches + 1]_vars
    /\ [][(pc = "s5_batch" /\ pc' # pc) => pc' \in {"s5_fetch", "failed"}]_vars

C18_Witness ==
    /\ pc = "s5_fetch"
    /\ fetches = 2
    /\ Cardinality(RewrittenSinceEntry) = PageSize
    /\ Cardinality(Matching(file_path)) = 1
    /\ failures = 0

=============================================================================
